---- MODULE Spec2Model ----
(***************************************************************************)
(* Model of analysis.py: the Static, Modal and Dynamics analysis classes.  *)
(*                                                                         *)
(* lastOp, lastArg and raised record the last call made on an object and   *)
(* the exception it raised ("none" when it returned); eigshCall records    *)
(* the eigsh call that call made, stepUsed the value of Dynamics.submit's  *)
(* local variable step.                                                    *)
(*                                                                         *)
(* Conventions.                                                            *)
(*  - An attribute that a method may create (displacement, modes, ...) is  *)
(*    a record with a "kind" field: "unset" before the first assignment,   *)
(*    "None" for Python's None, "array" for a numpy array.                 *)
(*  - Python strings are sequences of one-character strings, so that       *)
(*    str.lower() is computed character by character.                      *)
(*  - Python booleans are the integers 0 and 1 (bool is a subclass of int, *)
(*    and "value in [True, False]" compares with ==).                      *)
(*  - Eigenvalues are integers in units of (2*pi)^2 rad^2/s^2 and are      *)
(*    perfect squares when non-negative, so that sqrt(value)/(2*pi) is an  *)
(*    integer number of Hz.  Times are exact rationals [n, d] in seconds.  *)
(*  - scipy's eigsh and the sparse inverse are the environment: their      *)
(*    results are chosen nondeterministically among what the library may   *)
(*    return for the call the code makes.                                  *)
(*  - The entries of the mode-shape and response matrices are reals that   *)
(*    the claims do not constrain; an array of them is kept as its shape   *)
(*    (rows, cols) and, for mode shapes, the normalisation branch taken.   *)
(***************************************************************************)
EXTENDS Integers, Sequences, FiniteSets, TLC

VARIABLES model, static, modal, dynamics, lastOp, lastArg, raised, eigshCall, stepUsed

vars == <<model, static, modal, dynamics, lastOp, lastArg, raised, eigshCall, stepUsed>>

-----------------------------------------------------------------------------
(* Bounds of the explored inputs.                                          *)

\* largest number of degrees of freedom of a model given to Static
MaxDof == 3
\* largest number of free degrees of freedom of a model given to Modal
MaxFree == 3
\* largest argument tried with setNumberOfEigenvalues
MaxNumber == 3
\* largest argument tried with setSigmaValue and setTolerance
MaxSigma == 1
\* largest numerator of the time periods and increment sizes tried
MaxTime == 2

-----------------------------------------------------------------------------
(* Values.                                                                 *)

Unset == [kind |-> "unset"]
None == [kind |-> "None"]
Array(v) == [kind |-> "array", val |-> v]

Range(s) == {s[i] : i \in DOMAIN s}

\* every ordering of the finite set S as a sequence
Orderings(S) ==
    {s \in [1..Cardinality(S) -> S] : \A i, j \in DOMAIN s : s[i] = s[j] => i = j}

-----------------------------------------------------------------------------
(* The model handed to the analyses (module "model", external).            *)

\* list(self.model.fdof.values()) etc.: zero-based indices
FDof(m) == m.fdof
RDof(m) == m.rdof
NDofLen(m) == m.ndof

\* A model for Static: fdof and rdof partition 0..ndof-1 (each listed in any
\* order); Kff is diagonal with the entries Kff[j] (a 0 makes it singular);
\* Ff = Sp.dot(loads) is the load on the free degrees of freedom.
ModelsOf(n, F) ==
    { [ndof |-> n, fdof |-> f, rdof |-> r, Kff |-> k, Ff |-> l] :
        f \in Orderings(F),
        r \in Orderings((0..(n-1)) \ F),
        k \in [1..Cardinality(F) -> {0, 1, 2}],
        l \in [1..Cardinality(F) -> {-2, 0, 2}] }

\* m is a model for Static with at most MaxDof degrees of freedom
IsStaticModel(m) ==
    \E n \in 2..MaxDof : \E F \in (SUBSET (0..(n-1))) \ {{}} : m \in ModelsOf(n, F)

\* A model for Modal and Dynamics: nf free degrees of freedom 0..nf-1 and one
\* restrained one; its matrices are seen only through eigsh.
FreeModel(nf) ==
    [ndof |-> nf + 1, fdof |-> [i \in 1..nf |-> i - 1], rdof |-> <<nf>>,
     Kff |-> [i \in 1..nf |-> 1], Ff |-> [i \in 1..nf |-> 0]]

\* dimension of the free-free partitions getPartitionFF() returns
FFDim(m) == Len(m.fdof)

-----------------------------------------------------------------------------
(* class Static                                                            *)

StaticInit == [model |-> "model", stiffness |-> Unset, displacement |-> Unset]

\* sps.linalg.inv(Kff) raises on a singular matrix
InvRaises(m) == \E j \in DOMAIN m.Kff : m.Kff[j] = 0

\* Uf = inv(Kff).dot(Ff - Kfr.dot(Ur)) with Ur = 0 and Kff diagonal
SolveUf(m) == [j \in DOMAIN m.Kff |-> m.Ff[j] \div m.Kff[j]]

\* np.zeros(n), indexed from 0
Zeros(n) == [i \in 0..(n-1) |-> 0]

\* a[idx] = vals for an index list idx (the last write to an index wins)
Put(a, idx, vals) ==
    [i \in DOMAIN a |->
        IF \E j \in DOMAIN idx : idx[j] = i
        THEN vals[CHOOSE j \in DOMAIN idx :
                    idx[j] = i /\ \A h \in DOMAIN idx : idx[h] = i => h <= j]
        ELSE a[i]]

\* a mutation of Scatter: the free entries are written contiguously from 0
ScatterContiguous(n, rdof, Ur, fdof, Uf) ==
    Put(Put(Zeros(n), rdof, Ur), [j \in DOMAIN fdof |-> j - 1], Uf)

\* lines 45-47: zeros, then the restrained and the free entries
Scatter(n, rdof, Ur, fdof, Uf) ==
    Put(Put(Zeros(n), rdof, Ur), fdof, Uf)

StaticSubmit ==
    /\ lastOp' = "Static.submit"
    /\ lastArg' = <<>>
    /\ IF InvRaises(model)
       THEN /\ static' = [static EXCEPT !.stiffness = Array("Stiffness")]
            /\ raised' = "RuntimeError"
       ELSE /\ static' = [static EXCEPT
                  !.stiffness = Array("Stiffness"),
                  !.displacement =
                      Array(Scatter(NDofLen(model), RDof(model),
                                    [j \in DOMAIN RDof(model) |-> 0],
                                    FDof(model), SolveUf(model)))]
            /\ raised' = "none"
    /\ UNCHANGED <<model, modal, dynamics, eigshCall, stepUsed>>

-----------------------------------------------------------------------------
(* Python values used by class Modal.                                      *)

UpperCase == <<"A", "B", "C", "D", "E", "F", "G", "H", "I", "J", "K", "L", "M",
               "N", "O", "P", "Q", "R", "S", "T", "U", "V", "W", "X", "Y", "Z">>
LowerCase == <<"a", "b", "c", "d", "e", "f", "g", "h", "i", "j", "k", "l", "m",
               "n", "o", "p", "q", "r", "s", "t", "u", "v", "w", "x", "y", "z">>

LowerChar(c) ==
    IF \E i \in DOMAIN UpperCase : UpperCase[i] = c
    THEN LowerCase[CHOOSE i \in DOMAIN UpperCase : UpperCase[i] = c]
    ELSE c

\* str.lower()
Lower(s) == [i \in DOMAIN s |-> LowerChar(s[i])]

StrMass == <<"M", "a", "s", "s">>
StrLowerMass == <<"m", "a", "s", "s">>
StrDisplacement == <<"D", "i", "s", "p", "l", "a", "c", "e", "m", "e", "n", "t">>
StrLowerDisplacement == <<"d", "i", "s", "p", "l", "a", "c", "e", "m", "e", "n", "t">>
StrModal == <<"m", "o", "d", "a", "l">>

\* the arguments tried with setNormalizationMethod
Methods == {StrMass, StrLowerMass, StrDisplacement, StrLowerDisplacement, StrModal}

PyTrue == 1
PyFalse == 0

\* the eigenvalues eigsh may return, in units of (2*pi)^2 rad^2/s^2
EigVals == {-1, 1, 4}

\* np.sqrt(value)/(2*np.pi) of a non-negative eigenvalue, in Hz
Sqrt(v) == CHOOSE f \in 0..v : f * f = v

-----------------------------------------------------------------------------
(* scipy.sparse.linalg.eigsh, as Modal.submit calls it (shift-invert mode, *)
(* sigma given): the environment.                                          *)

\* the ascending sequences of k eigenvalues, each at least lo
RECURSIVE AscendingFrom(_, _)
AscendingFrom(k, lo) ==
    IF k = 0 THEN {<<>>}
    ELSE UNION { { <<v>> \o s : s \in AscendingFrom(k - 1, v) } :
                 v \in {e \in EigVals : e >= lo} }

\* eigsh raises for k >= n when the matrices are sparse (mass.toarray() of
\* line 227 shows they are); the exception class depends on the scipy version
EigshRejects(k, n) == k >= n

\* what eigsh may do for k < n: return k eigenvalues in ascending order, or
\* raise ArpackNoConvergence
EigshOutcomes(k) ==
    { [ok |-> TRUE, values |-> s] : s \in AscendingFrom(k, -1) }
    \cup { [ok |-> FALSE, values |-> <<>>] }

NoCall == [called |-> FALSE]

-----------------------------------------------------------------------------
(* class Modal                                                             *)

DefaultNumberOfEigenvalues == 1

ModalInit ==
    [tolerance |-> 0, sigma |-> 0,
     numberOfEigenvalues |-> DefaultNumberOfEigenvalues,
     normalizationMethod |-> StrMass, returnModeShapes |-> PyTrue,
     modes |-> Unset, frequencies |-> Unset]

Ok(obj) == [obj |-> obj, raised |-> "none"]
Raise(obj, error) == [obj |-> obj, raised |-> error]

\* a mutation of setSigmaValue: only negative values are rejected
setSigmaValueAcceptsZero(self, sigma) ==
    IF sigma < 0 THEN Raise(self, "TypeError")
    ELSE Ok([self EXCEPT !.sigma = sigma])

setSigmaValue(self, sigma) ==
    IF sigma <= 0 THEN Raise(self, "TypeError")
    ELSE Ok([self EXCEPT !.sigma = sigma])

setTolerance(self, tolerance) == Ok([self EXCEPT !.tolerance = tolerance])

setNumberOfEigenvalues(self, number) ==
    IF number <= 0 THEN Raise(self, "TypeError")
    ELSE Ok([self EXCEPT !.numberOfEigenvalues = number])

setNormalizationMethod(self, method) ==
    IF Lower(method) \notin {StrLowerDisplacement, StrLowerMass}
    THEN Raise(self, "TypeError")
    ELSE Ok([self EXCEPT !.normalizationMethod = method])

setReturnModeShapes(self, value) ==
    IF value \notin {PyTrue, PyFalse} THEN Raise(self, "TypeError")
    ELSE Ok([self EXCEPT !.returnModeShapes = value])

\* np.any(values<0)
AnyNegative(values) == \E i \in DOMAIN values : values[i] < 0

\* values[np.where(values>=0)]
NonNegative(values) == SelectSeq(values, LAMBDA v : v >= 0)

\* the module imports no name "syst": evaluating syst.stdout raises NameError
SystDefined == FALSE

\* a mutation of Frequencies: the values are taken in reverse order
FrequenciesReversed(values) ==
    [i \in DOMAIN values |-> Sqrt(values[Len(values) + 1 - i])]

\* line 247
Frequencies(values) == [i \in DOMAIN values |-> Sqrt(values[i])]

\* lines 225-231: the branch that normalises the vectors
Normalization(self) ==
    IF self.normalizationMethod = StrMass THEN "mass" ELSE "displacement"

\* lines 235-237: the full-space mode matrix
Modes(self, m, values) ==
    Array([rows |-> NDofLen(m), cols |-> Len(values), norm |-> Normalization(self)])

\* the call of line 211 and, when eigsh accepted it, whether it converged and
\* how many of the eigenvalues it returned are negative
EigshCall(self, m, out) ==
    [called |-> TRUE, k |-> self.numberOfEigenvalues, n |-> FFDim(m),
     sigma |-> self.sigma, tol |-> self.tolerance,
     return_eigenvectors |-> self.returnModeShapes,
     returned |-> ~EigshRejects(self.numberOfEigenvalues, FFDim(m)) /\ out.ok,
     negatives |-> Len(out.values) - Len(NonNegative(out.values))]

\* Modal.submit on model m, out being what eigsh does when it accepts the call
ModalSubmitResult(self, m, out) ==
    IF EigshRejects(self.numberOfEigenvalues, FFDim(m)) THEN Raise(self, "EigshError")
    ELSE IF ~out.ok THEN Raise(self, "ArpackNoConvergence")
    ELSE LET values == out.values
             kept == IF AnyNegative(values) THEN NonNegative(values) ELSE values
         IN  IF self.returnModeShapes # PyFalse
             THEN IF AnyNegative(values) /\ ~SystDefined
                  THEN Raise(self, "NameError")
                  ELSE Ok([self EXCEPT !.modes = Modes(self, m, kept),
                                       !.frequencies = Array(Frequencies(kept))])
             ELSE IF AnyNegative(values) /\ ~SystDefined
                  THEN Raise([self EXCEPT !.modes = None], "NameError")
                  ELSE Ok([self EXCEPT !.modes = None,
                                       !.frequencies = Array(Frequencies(kept))])

ModalSetSigmaValue ==
    \E sigma \in (-1)..MaxSigma :
        /\ modal' = setSigmaValue(modal, sigma).obj
        /\ raised' = setSigmaValue(modal, sigma).raised
        /\ lastOp' = "Modal.setSigmaValue"
        /\ lastArg' = sigma
        /\ eigshCall' = NoCall
        /\ UNCHANGED <<model, static, dynamics, stepUsed>>

ModalSetTolerance ==
    \E tolerance \in {0, 1} :
        /\ modal' = setTolerance(modal, tolerance).obj
        /\ raised' = setTolerance(modal, tolerance).raised
        /\ lastOp' = "Modal.setTolerance"
        /\ lastArg' = tolerance
        /\ eigshCall' = NoCall
        /\ UNCHANGED <<model, static, dynamics, stepUsed>>

ModalSetNumberOfEigenvalues ==
    \E number \in (-1)..MaxNumber :
        /\ modal' = setNumberOfEigenvalues(modal, number).obj
        /\ raised' = setNumberOfEigenvalues(modal, number).raised
        /\ lastOp' = "Modal.setNumberOfEigenvalues"
        /\ lastArg' = number
        /\ eigshCall' = NoCall
        /\ UNCHANGED <<model, static, dynamics, stepUsed>>

ModalSetNormalizationMethod ==
    \E method \in Methods :
        /\ modal' = setNormalizationMethod(modal, method).obj
        /\ raised' = setNormalizationMethod(modal, method).raised
        /\ lastOp' = "Modal.setNormalizationMethod"
        /\ lastArg' = method
        /\ eigshCall' = NoCall
        /\ UNCHANGED <<model, static, dynamics, stepUsed>>

ModalSetReturnModeShapes ==
    \E value \in {PyFalse, PyTrue, 2} :
        /\ modal' = setReturnModeShapes(modal, value).obj
        /\ raised' = setReturnModeShapes(modal, value).raised
        /\ lastOp' = "Modal.setReturnModeShapes"
        /\ lastArg' = value
        /\ eigshCall' = NoCall
        /\ UNCHANGED <<model, static, dynamics, stepUsed>>

ModalSubmit ==
    \E out \in EigshOutcomes(IF EigshRejects(modal.numberOfEigenvalues, FFDim(model))
                             THEN 0 ELSE modal.numberOfEigenvalues) :
        /\ modal' = ModalSubmitResult(modal, model, out).obj
        /\ raised' = ModalSubmitResult(modal, model, out).raised
        /\ lastOp' = "Modal.submit"
        /\ lastArg' = <<>>
        /\ eigshCall' = EigshCall(modal, model, out)
        /\ UNCHANGED <<model, static, dynamics, stepUsed>>

-----------------------------------------------------------------------------
(* Exact rationals for times: [n, d] with d > 0.                           *)

Rat(n, d) == [n |-> n, d |-> d]
RatLess(a, b) == a.n * b.d < b.n * a.d
RatLeq(a, b) == a.n * b.d <= b.n * a.d
RatEq(a, b) == a.n * b.d = b.n * a.d
RatAdd(a, b) == Rat(a.n * b.d + b.n * a.d, a.d * b.d)
RatSub(a, b) == Rat(a.n * b.d - b.n * a.d, a.d * b.d)
RatScale(i, a) == Rat(i * a.n, a.d)

\* ceil(a / b) for positive b
RatCeilDiv(a, b) ==
    LET x == a.n * b.d
        y == a.d * b.n
    IN  IF x <= 0 THEN 0 ELSE ((x - 1) \div y) + 1

\* np.arange(0, stop, step): ceil(stop/step) samples 0, step, 2*step, ...
Arange(stop, step) == [i \in 1..RatCeilDiv(stop, step) |-> RatScale(i - 1, step)]

\* the arguments tried with setTimePeriod and setIncrementSize
Periods == { Rat(n, 2) : n \in (-1)..MaxTime }
Increments == { Rat(n, d) : n \in (-1)..MaxTime, d \in {10, 30} }

-----------------------------------------------------------------------------
(* class Dynamics                                                          *)

Truncation == 10

DynamicsInit ==
    [timePeriod |-> Rat(1, 1), incrementSize |-> Rat(1, 10),
     modes |-> Unset, frequencies |-> Unset, time |-> Unset,
     displacement |-> Unset, velocity |-> Unset, acceleration |-> Unset]

NoStep == Rat(0, 1)

setTimePeriod(self, period) ==
    IF period.n <= 0 THEN Raise(self, "TypeError")
    ELSE Ok([self EXCEPT !.timePeriod = period])

setIncrementSize(self, size) ==
    IF size.n <= 0 THEN Raise(self, "TypeError")
    ELSE Ok([self EXCEPT !.incrementSize = size])

\* lines 327-328: the internal Modal and the count it is given
InternalModal == setNumberOfEigenvalues(ModalInit, Truncation).obj

\* frequencies[-1]
Last(s) == s[Len(s)]

\* 0.1*(1/f) for a frequency f > 0
TenthOfPeriod(f) == Rat(1, 10 * f)

\* a mutation of Step: the limit is taken from the lowest frequency
StepFromFirst(size, frequencies) ==
    IF RatLess(TenthOfPeriod(frequencies[1]), size)
    THEN TenthOfPeriod(frequencies[1]) ELSE size

\* lines 335-338
Step(size, frequencies) ==
    IF RatLess(TenthOfPeriod(Last(frequencies)), size)
    THEN TenthOfPeriod(Last(frequencies)) ELSE size

\* a mutation of TimeGrid: the stop value is the period itself
TimeGridToPeriod(period, step) == Arange(period, step)

\* line 340
TimeGrid(period, step) == Arange(RatAdd(period, step), step)

\* lines 346-348: np.zeros((len(frequencies), len(time)))
Response(frequencies, time) == Array([rows |-> Len(frequencies), cols |-> Len(time)])

\* Dynamics.submit on model m, out being what eigsh does for the internal Modal
DynamicsSubmitResult(self, m, out) ==
    LET run == ModalSubmitResult(InternalModal, m, out)
    IN  IF run.raised # "none" THEN Raise(self, run.raised)
        ELSE LET frequencies == run.obj.frequencies.val
                 step == Step(self.incrementSize, frequencies)
                 time == TimeGrid(self.timePeriod, step)
             IN  Ok([self EXCEPT
                       !.modes = run.obj.modes,
                       !.frequencies = run.obj.frequencies,
                       !.time = Array(time),
                       !.displacement = Response(frequencies, time),
                       !.velocity = Response(frequencies, time),
                       !.acceleration = Response(frequencies, time)])

\* the value of the local variable step after line 338
DynamicsStep(self, m, out) ==
    LET run == ModalSubmitResult(InternalModal, m, out)
    IN  IF run.raised # "none" THEN NoStep
        ELSE Step(self.incrementSize, run.obj.frequencies.val)

DynamicsSetTimePeriod ==
    \E period \in Periods :
        /\ dynamics' = setTimePeriod(dynamics, period).obj
        /\ raised' = setTimePeriod(dynamics, period).raised
        /\ lastOp' = "Dynamics.setTimePeriod"
        /\ lastArg' = period
        /\ eigshCall' = NoCall
        /\ stepUsed' = NoStep
        /\ UNCHANGED <<model, static, modal>>

DynamicsSetIncrementSize ==
    \E size \in Increments :
        /\ dynamics' = setIncrementSize(dynamics, size).obj
        /\ raised' = setIncrementSize(dynamics, size).raised
        /\ lastOp' = "Dynamics.setIncrementSize"
        /\ lastArg' = size
        /\ eigshCall' = NoCall
        /\ stepUsed' = NoStep
        /\ UNCHANGED <<model, static, modal>>

DynamicsSubmit ==
    \E out \in EigshOutcomes(IF EigshRejects(Truncation, FFDim(model))
                             THEN 0 ELSE Truncation) :
        /\ dynamics' = DynamicsSubmitResult(dynamics, model, out).obj
        /\ raised' = DynamicsSubmitResult(dynamics, model, out).raised
        /\ lastOp' = "Dynamics.submit"
        /\ lastArg' = <<>>
        /\ eigshCall' = EigshCall(InternalModal, model, out)
        /\ stepUsed' = DynamicsStep(dynamics, model, out)
        /\ UNCHANGED <<model, static, modal>>

-----------------------------------------------------------------------------
(* Specifications: one per analysis class, each over the models it is given. *)

Constructed ==
    /\ static = StaticInit
    /\ modal = ModalInit
    /\ dynamics = DynamicsInit
    /\ lastOp = "__init__"
    /\ lastArg = <<>>
    /\ raised = "none"
    /\ eigshCall = NoCall
    /\ stepUsed = NoStep

StaticSpecInit == IsStaticModel(model) /\ Constructed
StaticNext == StaticSubmit
StaticSpec == StaticSpecInit /\ [][StaticNext]_vars

ModalModels == { FreeModel(nf) : nf \in 2..MaxFree }
ModalSpecInit == model \in ModalModels /\ Constructed
ModalNext ==
    \/ ModalSetSigmaValue
    \/ ModalSetTolerance
    \/ ModalSetNumberOfEigenvalues
    \/ ModalSetNormalizationMethod
    \/ ModalSetReturnModeShapes
    \/ ModalSubmit
ModalSpec == ModalSpecInit /\ [][ModalNext]_vars

DynamicsModels == { FreeModel(nf) : nf \in {3, Truncation, Truncation + 1} }
DynamicsSpecInit == model \in DynamicsModels /\ Constructed
DynamicsNext ==
    \/ DynamicsSetTimePeriod
    \/ DynamicsSetIncrementSize
    \/ DynamicsSubmit
DynamicsSpec == DynamicsSpecInit /\ [][DynamicsNext]_vars

-----------------------------------------------------------------------------
(* Properties.                                                             *)

ModalCompleted == lastOp = "Modal.submit" /\ raised = "none"
DynamicsCompleted == lastOp = "Dynamics.submit" /\ raised = "none"

\* the largest element of a non-empty sequence of numbers
Max(s) == CHOOSE x \in Range(s) : \A y \in Range(s) : y <= x

\* the result attributes of the three classes
StaticResults == <<static.displacement>>
ModalResults == <<modal.frequencies, modal.modes>>
DynamicsResults ==
    <<dynamics.time, dynamics.displacement, dynamics.velocity, dynamics.acceleration>>

\* C1: eigsh is never called with a number of eigenvalues above the dimension
\* of the free-free partition minus one (such a request is rejected earlier).
C1_RejectedBeforeSolve ==
    eigshCall.called => eigshCall.k <= eigshCall.n - 1

\* C2 as stated: setSigmaValue(0) is accepted and leaves sigma = 0.
C2_ZeroSigmaAccepted ==
    (lastOp = "Modal.setSigmaValue" /\ lastArg = 0) =>
        (raised = "none" /\ modal.sigma = 0)

\* C2 amended: setSigmaValue(0) raises TypeError and changes nothing; sigma is
\* 0 only while no setSigmaValue call has been accepted, and submit hands the
\* stored sigma (0 by default) to eigsh.
C2_ZeroSigmaRejected ==
    [][/\ (lastOp' = "Modal.setSigmaValue" /\ lastArg' = 0) =>
            (raised' = "TypeError" /\ modal' = modal)
       /\ (modal.sigma # 0) => (modal'.sigma # 0)
       /\ eigshCall'.called => eigshCall'.sigma = modal'.sigma]_vars

C2_Witness ==
    /\ lastOp = "Modal.setSigmaValue" /\ lastArg = 0 /\ raised = "TypeError"
    /\ modal.sigma = 0 /\ modal.frequencies.kind = "array"

\* C3: a Modal.submit whose eigsh call returned a negative eigenvalue still
\* completes without raising.
C3_NegativesDoNotInterrupt ==
    (lastOp = "Modal.submit" /\ eigshCall.called /\ eigshCall.returned
        /\ eigshCall.negatives > 0) => raised = "none"

\* C4: after a completed Dynamics.submit the step used (the spacing of the
\* time grid) is at most one tenth of the period of the highest retained
\* frequency.
C4_StepWithinTenthOfPeriod ==
    DynamicsCompleted =>
        /\ RatLeq(stepUsed, TenthOfPeriod(Max(dynamics.frequencies.val)))
        /\ RatEq(RatSub(dynamics.time.val[2], dynamics.time.val[1]), stepUsed)

C4_Witness ==
    /\ DynamicsCompleted
    /\ RatLess(stepUsed, dynamics.incrementSize)
    /\ dynamics.frequencies.val[1] < Max(dynamics.frequencies.val)

\* C5: after a completed Modal.submit with mode shapes, the normalisation
\* applied is the one the accepted normalizationMethod names, whatever its
\* spelling.
C5_AppliedNormalizationIsNamed ==
    (ModalCompleted /\ modal.returnModeShapes # PyFalse) =>
        /\ Lower(modal.normalizationMethod) = StrLowerMass
              => modal.modes.val.norm = "mass"
        /\ Lower(modal.normalizationMethod) = StrLowerDisplacement
              => modal.modes.val.norm = "displacement"

\* C6: a submit that raises leaves every result attribute as it was.
C6_NoPartialResult ==
    [][(lastOp' \in {"Static.submit", "Modal.submit", "Dynamics.submit"}
          /\ raised' # "none") =>
        /\ StaticResults' = StaticResults
        /\ ModalResults' = ModalResults
        /\ DynamicsResults' = DynamicsResults]_vars

\* the time grid starts at 0 and is uniformly spaced by the step used
UniformGrid(time, step) ==
    /\ RatEq(time[1], Rat(0, 1))
    /\ \A i \in 1..(Len(time) - 1) : RatEq(RatSub(time[i + 1], time[i]), step)

\* C7 as stated: the grid starts at 0, is spaced by the step and ends at
\* timePeriod exactly, no sample exceeding it.
C7_GridEndsAtPeriod ==
    DynamicsCompleted =>
        /\ UniformGrid(dynamics.time.val, stepUsed)
        /\ \A i \in DOMAIN dynamics.time.val :
              RatLeq(dynamics.time.val[i], dynamics.timePeriod)
        /\ RatEq(Last(dynamics.time.val), dynamics.timePeriod)

\* C7 amended: the grid starts at 0, is spaced by the step, and its last
\* sample is the first grid point at or beyond timePeriod: it is timePeriod
\* when the step divides timePeriod and exceeds it by less than one step
\* otherwise.
C7_GridCoversPeriod ==
    DynamicsCompleted =>
        /\ UniformGrid(dynamics.time.val, stepUsed)
        /\ RatLeq(dynamics.timePeriod, Last(dynamics.time.val))
        /\ RatLess(Last(dynamics.time.val), RatAdd(dynamics.timePeriod, stepUsed))

C7_Witness ==
    /\ DynamicsCompleted
    /\ RatLess(dynamics.timePeriod, Last(dynamics.time.val))

\* C8: the eigsh call of Dynamics.submit asks for mode shapes and for at most
\* 10 eigenvalues, and never for more than the free-free dimension minus one.
C8_TruncationFitsModel ==
    (lastOp = "Dynamics.submit" /\ eigshCall.called) =>
        /\ eigshCall.return_eigenvectors = PyTrue
        /\ eigshCall.k <= Truncation
        /\ eigshCall.k < eigshCall.n

\* C9: the displacement Static.submit assigns has one entry per degree of
\* freedom, 0 at every restrained index and the solved Uf entry at every free
\* index.
C9_ScatterPreservesIndices ==
    static.displacement.kind = "array" =>
        LET d == static.displacement.val
        IN  /\ DOMAIN d = 0..(NDofLen(model) - 1)
            /\ \A j \in DOMAIN RDof(model) : d[RDof(model)[j]] = 0
            /\ \A j \in DOMAIN FDof(model) : d[FDof(model)[j]] = SolveUf(model)[j]

C9_Witness ==
    /\ lastOp = "Static.submit" /\ raised = "none"
    /\ static.displacement.kind = "array"
    /\ Len(RDof(model)) > 0
    /\ \E i, j \in DOMAIN FDof(model) :
          /\ i < j /\ FDof(model)[i] > FDof(model)[j]
          /\ SolveUf(model)[i] # SolveUf(model)[j]
          /\ SolveUf(model)[i] # 0 /\ SolveUf(model)[j] # 0

\* C10: after a completed Modal.submit the frequencies are non-negative and
\* ascending, there are as many as eigenvalues requested minus negative ones
\* returned, and the mode matrix, when requested, has one column per frequency.
C10_FrequenciesOrderedAndCounted ==
    ModalCompleted =>
        LET f == modal.frequencies.val
        IN  /\ \A i \in DOMAIN f : f[i] >= 0
            /\ \A i, j \in DOMAIN f : i < j => f[i] <= f[j]
            /\ Len(f) = modal.numberOfEigenvalues - eigshCall.negatives
            /\ modal.returnModeShapes # PyFalse =>
                  /\ modal.modes.kind = "array"
                  /\ modal.modes.val.cols = Len(f)

C10_Witness ==
    /\ ModalCompleted
    /\ modal.returnModeShapes # PyFalse
    /\ Len(modal.frequencies.val) >= 2
    /\ modal.frequencies.val[1] < modal.frequencies.val[2]

====
